---- MODULE Spec2Model ----
(***************************************************************************)
(* FeatureExtracter (src/housing.py): a pandas preprocessing pipeline with  *)
(* a fit_transform / transform contract.  A DataFrame is modelled as a      *)
(* record of its index (row-ids, in order), its column names (in order),    *)
(* per-column dtype and per-column cell values.  Python object identity is   *)
(* modelled by a heap of frames, so that in-place stage writes and the       *)
(* copy made by transform are distinguishable.                               *)
(***************************************************************************)
EXTENDS Integers, Sequences, FiniteSets, TLC

VARIABLES self, arg, callerX, ret, op, stored, first, fitArg, before

vars == <<self, arg, callerX, ret, op, stored, first, fitArg, before>>

(***************************************************************************)
(* Bounds of the model.                                                     *)
(***************************************************************************)
\* Largest number of rows of an input table.
MaxRows == 2

\* How many years before and after the start year the date encoding is
\* tabulated for.
MaxYearsApart == 9

(***************************************************************************)
(* Cell values.  Every cell is a record of the same shape: k is the kind    *)
(* ("nan" is a missing cell), s the text of a string, n the number of an     *)
(* int or the 0/1 of a bool.                                                 *)
(***************************************************************************)
NaN == [k |-> "nan", s |-> "", n |-> 0]
StrV(t) == [k |-> "str", s |-> t, n |-> 0]
IntV(i) == [k |-> "int", s |-> "", n |-> i]
BoolV(b) == [k |-> "bool", s |-> "", n |-> IF b THEN 1 ELSE 0]

isna(v) == v.k = "nan"

\* Python's == on two cells: NaN equals nothing, a string never equals a
\* number, True == 1 and False == 0.
PyEq(a, b) ==
    IF a.k = "nan" \/ b.k = "nan" THEN FALSE
    ELSE IF a.k = "str" \/ b.k = "str" THEN a.k = b.k /\ a.s = b.s
    ELSE a.n = b.n

\* The strings that occur in the modelled tables, in Python's str order
\* (code point by code point).
StrOrder == <<"A", "B", "C", "CompShg", "Feedr", "GasA", "Gd", "None", "Norm", "TA">>

StrRank(t) == CHOOSE i \in 1..Len(StrOrder) : StrOrder[i] = t

\* Python's < on two cells of one kind, as sorted() uses it.
PyLess(a, b) ==
    IF a.k = "str" /\ b.k = "str" THEN StrRank(a.s) < StrRank(b.s)
    ELSE a.n < b.n

(***************************************************************************)
(* Sequence helpers.                                                        *)
(***************************************************************************)
Range(s) == {s[i] : i \in 1..Len(s)}

SelectSeqNotIn(s, S) == SelectSeq(s, LAMBDA x : x \notin S)

RECURSIVE AppendNew(_, _)
\* s followed by the elements of t that s does not hold yet.
AppendNew(s, t) ==
    IF t = <<>> THEN s
    ELSE AppendNew(IF Head(t) \in Range(s) THEN s ELSE Append(s, Head(t)), Tail(t))

(***************************************************************************)
(* Transform configuration (class attributes).                              *)
(***************************************************************************)
cols_cast_category == <<"MSSubClass">>

cols_fillna_None_str ==
    <<"PoolQC", "MiscFeature", "Alley", "Fence", "FireplaceQu", "GarageType",
      "GarageFinish", "GarageQual", "GarageCond", "BsmtExposure", "BsmtFinType2",
      "BsmtFinType1", "BsmtCond", "BsmtQual", "MasVnrType", "Electrical",
      "MSZoning", "Exterior1st", "Exterior2nd", "KitchenQual", "Functional",
      "SaleType">>

cols_fillna_0 ==
    <<"LotFrontage", "MasVnrArea", "BsmtFinSF1", "BsmtFinSF2", "BsmtUnfSF",
      "TotalBsmtSF", "BsmtFullBath", "BsmtHalfBath", "GarageCars">>

cols_drop ==
    <<"1stFlrSF", "GarageArea", "GarageYrBlt", "TotRmsAbvGrd", "Street", "Utilities">>

\* A dict is a sequence of <<key, value>> pairs in insertion order.
binarize_features_by_true_value ==
    << <<"Condition2", StrV("Norm")>>, <<"RoofMatl", StrV("CompShg")>>,
       <<"Heating", StrV("GasA")>> >>

binarize_features_by_false_value ==
    << <<"LowQualFinSF", IntV(0)>>, <<"3SsnPorch", IntV(0)>>,
       <<"PoolArea", IntV(0)>>, <<"MiscVal", IntV(0)>> >>

keys(d) == [i \in 1..Len(d) |-> d[i][1]]

\* f"{col}_is_{true_val}" for the configured pairs.
fmt_is(col, true_val) ==
    CASE col = "Condition2" /\ true_val = StrV("Norm") -> "Condition2_is_Norm"
      [] col = "RoofMatl" /\ true_val = StrV("CompShg") -> "RoofMatl_is_CompShg"
      [] col = "Heating" /\ true_val = StrV("GasA") -> "Heating_is_GasA"

\* f"{col}_not_{false_val}" for the configured pairs.
fmt_not(col, false_val) ==
    CASE col = "LowQualFinSF" /\ false_val = IntV(0) -> "LowQualFinSF_not_0"
      [] col = "3SsnPorch" /\ false_val = IntV(0) -> "3SsnPorch_not_0"
      [] col = "PoolArea" /\ false_val = IntV(0) -> "PoolArea_not_0"
      [] col = "MiscVal" /\ false_val = IntV(0) -> "MiscVal_not_0"

(***************************************************************************)
(* DataFrames.                                                              *)
(***************************************************************************)
\* X[col] = values, in place: a new column is appended, an existing one
\* keeps its position.
SetColumn(X, col, dt, values) ==
    [index |-> X.index,
     columns |-> IF col \in Range(X.columns) THEN X.columns ELSE Append(X.columns, col),
     dtype |-> [c \in DOMAIN X.dtype \cup {col} |-> IF c = col THEN dt ELSE X.dtype[c]],
     data |-> [c \in DOMAIN X.data \cup {col} |-> IF c = col THEN values ELSE X.data[c]]]

\* X.drop(columns=cols): a new frame without the columns.
DropColumns(X, cols) ==
    [index |-> X.index,
     columns |-> SelectSeqNotIn(X.columns, Range(cols)),
     dtype |-> [c \in DOMAIN X.dtype \ Range(cols) |-> X.dtype[c]],
     data |-> [c \in DOMAIN X.data \ Range(cols) |-> X.data[c]]]

IsNumberDtype(dt) == dt \in {"int64", "float64"}

HasNaN(X, c) == \E i \in Range(X.index) : isna(X.data[c][i])

(***************************************************************************)
(* Interpreter state of one call: the heap of DataFrame objects, the        *)
(* reference the local name X is bound to, and the pending exception.       *)
(***************************************************************************)
NoErr == [type |-> "none", source |-> "none", ids |-> <<>>, columns |-> <<>>]

\* X[...] = ... : the object X refers to is written in place.
InPlace(fr, X) == [fr EXCEPT !.heap[fr.ref] = X]

\* X = <new object>: a fresh object is allocated and X rebound to it.
NewFrame(fr, X) == [fr EXCEPT !.heap = Append(@, X), !.ref = Len(fr.heap) + 1]

Raise(fr, e) == [fr EXCEPT !.err = e]

Cur(fr) == fr.heap[fr.ref]

\* Mutant: no copy is made, X stays bound to the caller's object.
copy_missing(fr) == fr

\* X.copy(): a deep copy, a new object with equal content.
copy(fr) == NewFrame(fr, Cur(fr))

(***************************************************************************)
(* Stage 1: cast.                                                           *)
(***************************************************************************)
RECURSIVE CastAll(_, _)
CastAll(X, cols) ==
    IF cols = <<>> THEN X
    ELSE CastAll(SetColumn(X, Head(cols), "category", X.data[Head(cols)]), Tail(cols))

_cast_types(fr) == InPlace(fr, CastAll(Cur(fr), cols_cast_category))

(***************************************************************************)
(* Stage 2: fill missing values.                                            *)
(***************************************************************************)
\* Series.fillna(value): the dtype becomes object when a string lands in a
\* numeric column, and is kept otherwise.
FillColumn(X, c, value) ==
    SetColumn(X, c,
              IF value.k = "str" /\ IsNumberDtype(X.dtype[c]) /\ HasNaN(X, c)
              THEN "object" ELSE X.dtype[c],
              [i \in DOMAIN X.data[c] |-> IF isna(X.data[c][i]) THEN value ELSE X.data[c][i]])

RECURSIVE FillAll(_, _, _)
FillAll(X, cols, value) ==
    IF cols = <<>> THEN X
    ELSE FillAll(FillColumn(X, Head(cols), value), Tail(cols), value)

_fillna(fr) ==
    InPlace(fr, FillAll(FillAll(Cur(fr), cols_fillna_None_str, StrV("None")),
                        cols_fillna_0, IntV(0)))

(***************************************************************************)
(* Stage 3: drop columns.                                                   *)
(***************************************************************************)
\* Mutant: the result of X.drop is discarded.
_drop_columns_discarded(fr) == fr

_drop_columns(fr) == NewFrame(fr, DropColumns(Cur(fr), cols_drop))

(***************************************************************************)
(* Stage 4: date encoding.  Texts are sequences of one-character strings.   *)
(***************************************************************************)
start_year == 2000

DigitChars == <<"0", "1", "2", "3", "4", "5", "6", "7", "8", "9">>

RECURSIVE Digits(_)
\* str(n) of a non-negative int.
Digits(n) == IF n < 10 THEN <<DigitChars[n + 1]>> ELSE Append(Digits(n \div 10), DigitChars[(n % 10) + 1])

\* Series.astype(str) on one cell: an int64 column prints 5, a float64
\* column prints 5.0 and nan.
astype_str(v, dt) ==
    IF isna(v) THEN <<"n", "a", "n">>
    ELSE IF dt = "float64" THEN Digits(v.n) \o <<".", "0">>
    ELSE Digits(v.n)

DigitValue(ch) == (CHOOSE i \in 1..10 : DigitChars[i] = ch) - 1

IsDigit(ch) == ch \in Range(DigitChars)

RECURSIVE ToNumber(_)
ToNumber(t) == IF t = <<>> THEN 0 ELSE 10 * ToNumber(SubSeq(t, 1, Len(t) - 1)) + DigitValue(t[Len(t)])

\* %m: 1[0-2] | 0[1-9] | [1-9], tried in this order at the start of t; the
\* number of characters it takes, 0 for no match followed by "/".
MonthLen(t) ==
    IF Len(t) >= 3 /\ t[1] = "1" /\ t[2] \in {"0", "1", "2"} /\ t[3] = "/" THEN 2
    ELSE IF Len(t) >= 3 /\ t[1] = "0" /\ IsDigit(t[2]) /\ t[2] # "0" /\ t[3] = "/" THEN 2
    ELSE IF Len(t) >= 2 /\ IsDigit(t[1]) /\ t[1] # "0" /\ t[2] = "/" THEN 1
    ELSE 0

\* The text matches %m/%Y as a whole: a month, a slash and four digits.
MatchesFormat(t) ==
    /\ MonthLen(t) > 0
    /\ Len(t) = MonthLen(t) + 5
    /\ \A i \in (MonthLen(t) + 2)..Len(t) : IsDigit(t[i])

\* pd.to_datetime(text, format="%m/%Y") on a text that matches.
to_datetime(t) ==
    [month |-> ToNumber(SubSeq(t, 1, MonthLen(t))),
     year |-> ToNumber(SubSeq(t, MonthLen(t) + 2, Len(t)))]

\* Mutant: the year difference is not scaled to months.
get_months_unscaled(dt) == (dt.year - start_year) + dt.month

get_months_after_start_year(dt) == (dt.year - start_year) * 12 + dt.month

DateText(X, i) ==
    astype_str(X.data["MoSold"][i], X.dtype["MoSold"]) \o <<"/">>
        \o astype_str(X.data["YrSold"][i], X.dtype["YrSold"])

_transform_date_sold(fr) ==
    LET X == Cur(fr)
    IN  IF \E i \in Range(X.index) : ~MatchesFormat(DateText(X, i))
        THEN Raise(fr, [type |-> "ValueError", source |-> "to_datetime",
                        ids |-> <<>>, columns |-> <<>>])
        ELSE LET Y == SetColumn(X, "MonthNumSold", "int64",
                        [i \in Range(X.index) |->
                            IntV(get_months_after_start_year(to_datetime(DateText(X, i))))])
             IN  NewFrame(InPlace(fr, Y), DropColumns(Y, <<"MoSold", "YrSold">>))

(***************************************************************************)
(* Stage 5: binarize.                                                       *)
(***************************************************************************)
RECURSIVE BinarizeTrue(_, _)
BinarizeTrue(X, d) ==
    IF d = <<>> THEN X
    ELSE LET col == Head(d)[1]
             true_val == Head(d)[2]
         IN  BinarizeTrue(SetColumn(X, fmt_is(col, true_val), "bool",
                             [i \in Range(X.index) |-> BoolV(PyEq(X.data[col][i], true_val))]),
                          Tail(d))

RECURSIVE BinarizeFalse(_, _)
BinarizeFalse(X, d) ==
    IF d = <<>> THEN X
    ELSE LET col == Head(d)[1]
             false_val == Head(d)[2]
         IN  BinarizeFalse(SetColumn(X, fmt_not(col, false_val), "bool",
                              [i \in Range(X.index) |-> BoolV(~PyEq(X.data[col][i], false_val))]),
                           Tail(d))

RECURSIVE BinarizeFalseEq(_, _)
BinarizeFalseEq(X, d) ==
    IF d = <<>> THEN X
    ELSE LET col == Head(d)[1]
             false_val == Head(d)[2]
         IN  BinarizeFalseEq(SetColumn(X, fmt_not(col, false_val), "bool",
                              [i \in Range(X.index) |-> BoolV(PyEq(X.data[col][i], false_val))]),
                             Tail(d))

\* Mutant: the false-value rules test == instead of !=.
_binarize_features_eq(fr) ==
    LET Y == BinarizeFalseEq(BinarizeTrue(Cur(fr), binarize_features_by_true_value),
                             binarize_features_by_false_value)
    IN  NewFrame(InPlace(fr, Y),
                 DropColumns(Y, keys(binarize_features_by_true_value)
                                    \o keys(binarize_features_by_false_value)))

_binarize_features(fr) ==
    LET Y == BinarizeFalse(BinarizeTrue(Cur(fr), binarize_features_by_true_value),
                           binarize_features_by_false_value)
    IN  NewFrame(InPlace(fr, Y),
                 DropColumns(Y, keys(binarize_features_by_true_value)
                                    \o keys(binarize_features_by_false_value)))

(***************************************************************************)
(* Stage 6: validation.                                                     *)
(***************************************************************************)
RowHasNaN(X, i) == \E c \in Range(X.columns) : isna(X.data[c][i])

\* Mutant: the check is skipped.
_validate_no_nans_skipped(fr) == fr

\* Mutant: the error lists every row-id and every column.
_validate_no_nans_listing_all(fr) ==
    LET X == Cur(fr)
    IN  IF \E c \in Range(X.columns) : HasNaN(X, c)
        THEN Raise(fr, [type |-> "ValueError", source |-> "_validate_no_nans",
                        ids |-> X.index, columns |-> X.columns])
        ELSE fr

_validate_no_nans(fr) ==
    LET X == Cur(fr)
    IN  IF \E c \in Range(X.columns) : HasNaN(X, c)
        THEN Raise(fr, [type |-> "ValueError", source |-> "_validate_no_nans",
                        ids |-> SelectSeq(X.index, LAMBDA i : RowHasNaN(X, i)),
                        columns |-> SelectSeq(X.columns, LAMBDA c : HasNaN(X, c))])
        ELSE fr

\* A statement runs unless an exception is pending.
Then(fr, next(_)) == IF fr.err # NoErr THEN fr ELSE next(fr)

(***************************************************************************)
(* Input tables.  A table is built from one to MaxRows of the rows below,   *)
(* in ascending row-id order; every table has all the columns the stages     *)
(* name, and two columns no stage names (LotArea, Neighborhood).            *)
(***************************************************************************)
InputColumns ==
    <<"MSSubClass", "MSZoning", "LotFrontage", "LotArea", "Street", "Alley",
      "Utilities", "Neighborhood", "Condition2", "RoofMatl", "Exterior1st",
      "Exterior2nd", "MasVnrType", "MasVnrArea", "BsmtQual", "BsmtCond",
      "BsmtExposure", "BsmtFinType1", "BsmtFinSF1", "BsmtFinType2", "BsmtFinSF2",
      "BsmtUnfSF", "TotalBsmtSF", "Heating", "Electrical", "1stFlrSF",
      "LowQualFinSF", "BsmtFullBath", "BsmtHalfBath", "KitchenQual",
      "TotRmsAbvGrd", "Functional", "FireplaceQu", "GarageType", "GarageYrBlt",
      "GarageFinish", "GarageCars", "GarageArea", "GarageQual", "GarageCond",
      "3SsnPorch", "PoolArea", "PoolQC", "Fence", "MiscFeature", "MiscVal",
      "MoSold", "YrSold", "SaleType">>

TextColumns ==
    Range(cols_fillna_None_str)
        \cup {"Street", "Utilities", "Neighborhood", "Condition2", "RoofMatl", "Heating"}

\* A row without a missing cell.
BaseRow ==
    ("MSSubClass" :> IntV(60)) @@ ("Neighborhood" :> StrV("B"))
        @@ ("Condition2" :> StrV("Norm")) @@ ("RoofMatl" :> StrV("CompShg"))
        @@ ("Heating" :> StrV("GasA"))
        @@ ("LowQualFinSF" :> IntV(0)) @@ ("3SsnPorch" :> IntV(0))
        @@ ("PoolArea" :> IntV(0)) @@ ("MiscVal" :> IntV(0))
        @@ ("MoSold" :> IntV(5)) @@ ("YrSold" :> IntV(2008))
        @@ [c \in Range(InputColumns) |-> IF c \in TextColumns THEN StrV("TA") ELSE IntV(7)]

\* The rows, by row-id.
Rows ==
    <<  \* 1: missing cells only where a fill rule covers them
        ("LotFrontage" :> NaN) @@ ("PoolQC" :> NaN) @@ BaseRow,
        \* 2: other categories, a missing cell in a dropped column
        ("Condition2" :> StrV("Feedr")) @@ ("PoolArea" :> IntV(150))
            @@ ("MoSold" :> IntV(12)) @@ ("YrSold" :> IntV(2000))
            @@ ("Neighborhood" :> StrV("A")) @@ ("MSSubClass" :> IntV(20))
            @@ ("GarageYrBlt" :> NaN) @@ ("Alley" :> NaN) @@ BaseRow,
        \* 3: missing cells in binarized columns, a third category
        ("Condition2" :> NaN) @@ ("PoolArea" :> NaN) @@ ("Heating" :> StrV("Gd"))
            @@ ("MoSold" :> IntV(1)) @@ ("YrSold" :> IntV(2001))
            @@ ("Neighborhood" :> StrV("C")) @@ BaseRow,
        \* 4: a missing cell in a numeric column no rule covers
        ("LotArea" :> NaN) @@ ("MoSold" :> IntV(12)) @@ ("YrSold" :> IntV(2001))
            @@ BaseRow,
        \* 5: missing cells in a text column no rule covers and in the cast column
        ("Neighborhood" :> NaN) @@ ("MSSubClass" :> NaN) @@ BaseRow,
        \* 6: a missing month of sale
        ("MoSold" :> NaN) @@ BaseRow >>

\* The dtype pandas gives a column holding these values.
InferDtype(values) ==
    IF \E i \in DOMAIN values : values[i].k = "str" THEN "object"
    ELSE IF \E i \in DOMAIN values : values[i].k = "nan" THEN "float64"
    ELSE "int64"

RECURSIVE Ascending(_)
Ascending(S) ==
    IF S = {} THEN <<>>
    ELSE LET m == CHOOSE x \in S : \A y \in S : x <= y
         IN  <<m>> \o Ascending(S \ {m})

MakeTable(ids) ==
    LET data == [c \in Range(InputColumns) |-> [i \in ids |-> Rows[i][c]]]
    IN  [index |-> Ascending(ids),
         columns |-> InputColumns,
         dtype |-> [c \in Range(InputColumns) |-> InferDtype(data[c])],
         data |-> data]

Inputs ==
    {MakeTable(ids) : ids \in {S \in SUBSET (1..Len(Rows)) : Cardinality(S) \in 1..MaxRows}}

(***************************************************************************)
(* The two entry points.                                                    *)
(***************************************************************************)
NoTable == [index |-> <<>>, columns |-> <<>>, dtype |-> <<>>, data |-> <<>>]

\* The body of transform: the interpreter state after its last statement,
\* starting with the caller's frame as the only object.
transform_body(X) ==
    LET fr0 == [heap |-> <<X>>, ref |-> 1, err |-> NoErr]
        fr1 == copy(fr0)
        fr2 == Then(fr1, _cast_types)
        fr3 == Then(fr2, _fillna)
        fr4 == Then(fr3, _drop_columns)
        fr5 == Then(fr4, _transform_date_sold)
        fr6 == Then(fr5, _binarize_features)
    IN  Then(fr6, _validate_no_nans)

\* transform_body of every input table, evaluated once.
TransformBodyOf == [X \in Inputs |-> transform_body(X)]

\* What a call leaves behind: the instance, the caller's frame object and
\* the value returned or exception raised.
Outcome(self_, fr) ==
    [self |-> self_,
     X |-> fr.heap[1],
     ret |-> IF fr.err = NoErr
             THEN [kind |-> "returned", table |-> Cur(fr), err |-> NoErr]
             ELSE [kind |-> "raised", table |-> NoTable, err |-> fr.err]]

\* X[col].unique(): the distinct values in order of first appearance.
unique(X, col) == AppendNew(<<>>, [k \in 1..Len(X.index) |-> X.data[col][X.index[k]]])

RECURSIVE Insert(_, _)
Insert(s, v) ==
    IF s = <<>> THEN <<v>>
    ELSE IF PyLess(v, Head(s)) THEN <<v>> \o s
    ELSE <<Head(s)>> \o Insert(Tail(s), v)

RECURSIVE sorted(_)
sorted(s) == IF s = <<>> THEN <<>> ELSE Insert(sorted(SubSeq(s, 1, Len(s) - 1)), s[Len(s)])

\* X.select_dtypes(include="number") / (exclude="number"), as column lists.
select_dtypes_include_number(X) == SelectSeq(X.columns, LAMBDA c : IsNumberDtype(X.dtype[c]))

select_dtypes_exclude_number(X) == SelectSeq(X.columns, LAMBDA c : ~IsNumberDtype(X.dtype[c]))

\* Mutant: the distinct values are not sorted.
category_lists_unsorted(X, cat_cols) == [k \in 1..Len(cat_cols) |-> unique(X, cat_cols[k])]

category_lists(X, cat_cols) == [k \in 1..Len(cat_cols) |-> sorted(unique(X, cat_cols[k]))]

\* The three assignments of fit_transform, on the table transform returned.
learn(X) ==
    [_num_cols |-> select_dtypes_include_number(X),
     _cat_cols |-> select_dtypes_exclude_number(X),
     _all_categories |-> category_lists(X, select_dtypes_exclude_number(X))]

\* learn of every table transform returns, evaluated once.
LearnOf ==
    [T \in {Cur(TransformBodyOf[X]) : X \in {Y \in Inputs : TransformBodyOf[Y].err = NoErr}}
        |-> learn(T)]

\* Mutant: transform also learns the role metadata of the table it returns.
transform_learning(self_, X) ==
    LET t == Outcome(self_, TransformBodyOf[X])
    IN  IF t.ret.kind = "raised" THEN t ELSE [t EXCEPT !.self = LearnOf[t.ret.table]]

transform(self_, X) == Outcome(self_, TransformBodyOf[X])

\* Mutant: the lists are extended instead of assigned.
fit_transform_extending(self_, X) ==
    LET t == transform(self_, X)
    IN  IF t.ret.kind = "raised" THEN t
        ELSE [t EXCEPT !.self =
                [_num_cols |-> self_._num_cols \o LearnOf[t.ret.table]._num_cols,
                 _cat_cols |-> self_._cat_cols \o LearnOf[t.ret.table]._cat_cols,
                 _all_categories |->
                     self_._all_categories \o LearnOf[t.ret.table]._all_categories]]

\* Mutant: the role metadata are taken from the table before it is
\* transformed and validated.
fit_transform_learning_first(self_, X) ==
    LET t == transform(learn(X), X)
    IN  IF t.ret.kind = "raised" THEN t
        ELSE [t EXCEPT !.self = LearnOf[t.ret.table]]

fit_transform(self_, X) ==
    LET t == transform(self_, X)
    IN  IF t.ret.kind = "raised" THEN t
        ELSE [t EXCEPT !.self = LearnOf[t.ret.table]]

get_numeric_feature_names == self._num_cols

get_categorical_feature_names == self._cat_cols

get_category_lists == self._all_categories

(***************************************************************************)
(* The state machine: a pipeline instance and the calls made on it.         *)
(*   self     the instance's role metadata                                  *)
(*   arg      the table passed to the last call, as it was before the call   *)
(*   callerX  the same table object, as it is after the call                 *)
(*   ret      what the last call returned or raised                          *)
(*   op       the last call                                                  *)
(* History:                                                                  *)
(*   stored   the metadata as the last successful fit_transform stored them  *)
(*   first    the metadata as the first successful fit_transform stored them *)
(*   fitArg   the table the last successful fit_transform was called with    *)
(*   before   self and fitArg as they were before the last call              *)
(***************************************************************************)
EmptySelf == [_num_cols |-> <<>>, _cat_cols |-> <<>>, _all_categories |-> <<>>]

NoRet == [kind |-> "none", table |-> NoTable, err |-> NoErr]

Init ==
    /\ self = EmptySelf
    /\ arg = NoTable
    /\ callerX = NoTable
    /\ ret = NoRet
    /\ op = "__init__"
    /\ stored = EmptySelf
    /\ first = EmptySelf
    /\ fitArg = NoTable
    /\ before = [self |-> EmptySelf, fitArg |-> NoTable]

Transform ==
    \E X \in Inputs :
        LET r == transform(self, X)
        IN  /\ self' = r.self
            /\ arg' = X
            /\ callerX' = r.X
            /\ ret' = r.ret
            /\ op' = "transform"
            /\ before' = [self |-> self, fitArg |-> fitArg]
            /\ UNCHANGED <<stored, first, fitArg>>

FitTransform ==
    \E X \in Inputs :
        LET r == fit_transform(self, X)
            ok == r.ret.kind = "returned"
        IN  /\ self' = r.self
            /\ arg' = X
            /\ callerX' = r.X
            /\ ret' = r.ret
            /\ op' = "fit_transform"
            /\ before' = [self |-> self, fitArg |-> fitArg]
            /\ stored' = IF ok THEN r.self ELSE stored
            /\ first' = IF ok /\ fitArg = NoTable THEN r.self ELSE first
            /\ fitArg' = IF ok THEN X ELSE fitArg

Next == Transform \/ FitTransform

Spec == Init /\ [][Next]_vars

(***************************************************************************)
(* Properties.                                                              *)
(***************************************************************************)
Called == op \in {"transform", "fit_transform"}

Returned == Called /\ ret.kind = "returned"

Raised == Called /\ ret.kind = "raised"

Cells(X, c) == {X.data[c][i] : i \in Range(X.index)}

\* The input columns no fill, drop, date or binarize rule names: they reach
\* the validation as they came in.
Uncovered ==
    Range(InputColumns)
        \ (Range(cols_fillna_None_str) \cup Range(cols_fillna_0) \cup Range(cols_drop)
             \cup Range(keys(binarize_features_by_true_value))
             \cup Range(keys(binarize_features_by_false_value))
             \cup {"MoSold", "YrSold"})

BooleanColumns ==
    {"Condition2_is_Norm", "RoofMatl_is_CompShg", "Heating_is_GasA",
     "LowQualFinSF_not_0", "3SsnPorch_not_0", "PoolArea_not_0", "MiscVal_not_0"}

C2_TransformKeepsMetadata ==
    op = "transform" =>
        /\ self = stored
        /\ self = before.self
        /\ ret.kind = "returned" =>
              ret.table.data["Neighborhood"] = arg.data["Neighborhood"]

\* C2 witness: a transform after a fit returned a table holding a
\* Neighborhood value that the fitted vocabulary does not hold.
C2_Witness ==
    /\ op = "transform"
    /\ ret.kind = "returned"
    /\ \E k \in 1..Len(self._cat_cols) :
          /\ self._cat_cols[k] = "Neighborhood"
          /\ \E v \in Cells(ret.table, "Neighborhood") : v \notin Range(self._all_categories[k])

\* C3 as stated: once a fit_transform has succeeded, the role metadata stay
\* what that first call stored.
C3_Original == first # EmptySelf => self = first

\* C3 amended: every successful fit_transform stores the role metadata of
\* the table it returns; when it is called with the table the previous
\* successful fit_transform was called with, that leaves the role metadata
\* as they were.
C3_RefitSameTable ==
    (op = "fit_transform" /\ ret.kind = "returned") =>
        /\ before.fitArg = arg => self = before.self
        /\ Range(self._num_cols) \cup Range(self._cat_cols) = Range(ret.table.columns)
        /\ \A k \in 1..Len(self._cat_cols) :
              Range(self._all_categories[k]) = Cells(ret.table, self._cat_cols[k])

\* C3 witness: fit_transform succeeded a second time on the same table.
C3_Witness ==
    /\ op = "fit_transform"
    /\ ret.kind = "returned"
    /\ before.fitArg = arg
    /\ before.self # EmptySelf

\* C4: after a call, returned or raised, the caller's table is cell for
\* cell, column for column, dtype for dtype and row-id for row-id what was
\* passed in.
C4_InputNotMutated == Called => callerX = arg

\* C4 witness: a call filled a missing cell and cast a column in the table
\* it returned.
C4_Witness ==
    /\ ret.kind = "returned"
    /\ NaN \in Cells(arg, "LotFrontage")
    /\ NaN \notin Cells(ret.table, "LotFrontage")
    /\ ret.table.dtype["MSSubClass"] # arg.dtype["MSSubClass"]

\* C5: after a successful fit_transform there is one vocabulary per
\* categorical column, in the same order, each strictly ascending and
\* holding exactly the values of its column in the returned table; the
\* numeric and the categorical names are disjoint and together are the
\* columns of the returned table, with the boolean columns and MSSubClass
\* among the categorical ones.
C5_MetadataOfReturnedTable ==
    (op = "fit_transform" /\ ret.kind = "returned") =>
        /\ Len(get_category_lists) = Len(get_categorical_feature_names)
        /\ \A k \in 1..Len(get_categorical_feature_names) :
              LET v == get_category_lists[k]
              IN  /\ Range(v) = Cells(ret.table, get_categorical_feature_names[k])
                  /\ \A j \in 1..(Len(v) - 1) : PyLess(v[j], v[j + 1])
        /\ Range(get_numeric_feature_names) \cap Range(get_categorical_feature_names) = {}
        /\ Range(get_numeric_feature_names) \cup Range(get_categorical_feature_names) = Range(ret.table.columns)
        /\ Len(get_numeric_feature_names) + Len(get_categorical_feature_names) = Len(ret.table.columns)
        /\ BooleanColumns \cup {"MSSubClass"} \subseteq Range(get_categorical_feature_names)

\* C5 witness: fit_transform succeeded on a table whose Neighborhood
\* values first appear in descending order.
C5_Witness ==
    /\ op = "fit_transform"
    /\ ret.kind = "returned"
    /\ Len(arg.index) >= 2
    /\ arg.data["Neighborhood"][arg.index[1]] = StrV("B")
    /\ arg.data["Neighborhood"][arg.index[2]] = StrV("A")

\* C6: the validation error lists, once each, exactly the row-ids and
\* exactly the columns that hold a missing cell after the stages, which are
\* the missing cells of the input in the columns no rule covers; a missing
\* cell in a dropped or binarized column alone raises no validation error.
C6_ErrorListsAffected ==
    /\ (Raised /\ ret.err.source = "_validate_no_nans") =>
          /\ Range(ret.err.ids) =
                {i \in Range(arg.index) : \E c \in Uncovered : isna(arg.data[c][i])}
          /\ Range(ret.err.columns) = {c \in Uncovered : NaN \in Cells(arg, c)}
          /\ Len(ret.err.ids) = Cardinality(Range(ret.err.ids))
          /\ Len(ret.err.columns) = Cardinality(Range(ret.err.columns))
    /\ (Called /\ \A c \in Uncovered : NaN \notin Cells(arg, c)) =>
          ret.err.source # "_validate_no_nans"

\* C6 witness: the validation raised for a two-row table with one affected
\* row and two affected columns.
C6_Witness ==
    /\ ret.kind = "raised"
    /\ ret.err.source = "_validate_no_nans"
    /\ Len(arg.index) = 2
    /\ Len(ret.err.ids) = 1
    /\ Len(ret.err.columns) = 2

\* C7: a returned table has none of the dropped columns, none of the
\* binarization source columns, neither MoSold nor YrSold, and has
\* MonthNumSold and the seven boolean columns.
C7_ColumnsOfReturnedTable ==
    Returned =>
        /\ Range(ret.table.columns)
              \cap {"1stFlrSF", "GarageArea", "GarageYrBlt", "TotRmsAbvGrd", "Street",
                    "Utilities", "Condition2", "RoofMatl", "Heating", "LowQualFinSF",
                    "3SsnPorch", "PoolArea", "MiscVal", "MoSold", "YrSold"} = {}
        /\ BooleanColumns \cup {"MonthNumSold"} \subseteq Range(ret.table.columns)
        /\ \A c \in BooleanColumns : ret.table.dtype[c] = "bool"
        /\ DOMAIN ret.table.data = Range(ret.table.columns)

\* C7 witness: a table with the dropped and source columns was passed and a
\* table was returned.
C7_Witness ==
    /\ Returned
    /\ {"Street", "GarageYrBlt", "PoolArea", "MoSold"} \subseteq Range(arg.columns)
    /\ NaN \in Cells(arg, "GarageYrBlt")

\* C8: in a returned table, row by row, each _is_ column is True exactly
\* when the input cell is the sentinel, and each _not_0 column is True
\* exactly when the input cell is not 0.
C8_Binarization ==
    Returned =>
        \A i \in Range(arg.index) :
            /\ ret.table.data["Condition2_is_Norm"][i] = BoolV(arg.data["Condition2"][i] = StrV("Norm"))
            /\ ret.table.data["RoofMatl_is_CompShg"][i] = BoolV(arg.data["RoofMatl"][i] = StrV("CompShg"))
            /\ ret.table.data["Heating_is_GasA"][i] = BoolV(arg.data["Heating"][i] = StrV("GasA"))
            /\ ret.table.data["LowQualFinSF_not_0"][i] = BoolV(arg.data["LowQualFinSF"][i] # IntV(0))
            /\ ret.table.data["3SsnPorch_not_0"][i] = BoolV(arg.data["3SsnPorch"][i] # IntV(0))
            /\ ret.table.data["PoolArea_not_0"][i] = BoolV(arg.data["PoolArea"][i] # IntV(0))
            /\ ret.table.data["MiscVal_not_0"][i] = BoolV(arg.data["MiscVal"][i] # IntV(0))

\* C8 witness: a returned table with a row whose Condition2 is another
\* category and PoolArea is 150, and a row where both cells are missing.
C8_Witness ==
    /\ Returned
    /\ \E i \in Range(arg.index) :
          arg.data["Condition2"][i] = StrV("Feedr") /\ arg.data["PoolArea"][i] = IntV(150)
    /\ \E i \in Range(arg.index) :
          arg.data["Condition2"][i] = NaN /\ arg.data["PoolArea"][i] = NaN

\* Every month 1..12 of the years around the start year, printed, parsed
\* and encoded, gives (year - 2000) * 12 + month.
DateEncodingExact ==
    \A m \in 1..12 : \A y \in (start_year - MaxYearsApart)..(start_year + MaxYearsApart) :
        LET t == Digits(m) \o <<"/">> \o Digits(y)
        IN  /\ MatchesFormat(t)
            /\ get_months_after_start_year(to_datetime(t)) = (y - 2000) * 12 + m

\* C9: in a returned table every row has MonthNumSold = (YrSold - 2000) * 12
\* + MoSold, and for any two rows the earlier (year, month) has the smaller
\* MonthNumSold and conversely.
C9_DateEncoding ==
    /\ DateEncodingExact
    /\ Returned =>
          /\ \A i \in Range(arg.index) :
                ret.table.data["MonthNumSold"][i]
                    = IntV((arg.data["YrSold"][i].n - 2000) * 12 + arg.data["MoSold"][i].n)
          /\ \A i, j \in Range(arg.index) :
                (\/ arg.data["YrSold"][i].n < arg.data["YrSold"][j].n
                 \/ /\ arg.data["YrSold"][i].n = arg.data["YrSold"][j].n
                    /\ arg.data["MoSold"][i].n < arg.data["MoSold"][j].n)
                <=> ret.table.data["MonthNumSold"][i].n < ret.table.data["MonthNumSold"][j].n

\* C9 witness: a returned table with a sale in 12/2000 and one in 1/2001,
\* encoded as 12 and 13.
C9_Witness ==
    /\ Returned
    /\ \E i, j \in Range(arg.index) :
          /\ arg.data["MoSold"][i] = IntV(12) /\ arg.data["YrSold"][i] = IntV(2000)
          /\ arg.data["MoSold"][j] = IntV(1) /\ arg.data["YrSold"][j] = IntV(2001)
          /\ ret.table.data["MonthNumSold"][i] = IntV(12)
          /\ ret.table.data["MonthNumSold"][j] = IntV(13)

\* C10: after a fit_transform that raised, the role metadata are what they
\* were before the call, which is what the last successful fit_transform
\* stored (nothing, if none succeeded).
C10_FailedFitAtomic ==
    (op = "fit_transform" /\ ret.kind = "raised") =>
        /\ self = before.self
        /\ self = stored

\* C10 witness: a fit_transform raised the validation error on a fitted
\* pipeline.
C10_Witness ==
    /\ op = "fit_transform"
    /\ ret.kind = "raised"
    /\ ret.err.source = "_validate_no_nans"
    /\ stored # EmptySelf

====
